---- MODULE Spec2Model ----
(***************************************************************************)
(* Model of image_duplication_detector.py: the DuplicateImagesDetector     *)
(* widget (GUI thread), the Worker runnables started on the QThreadPool,   *)
(* and the part of the file system the program reads and changes.          *)
(*                                                                         *)
(* GUI handlers (slots) run to completion on the GUI thread, so each is    *)
(* one action.  A worker is three kinds of step: the start of its hashing  *)
(* function, one loop iteration per file, and the end of the loop, which   *)
(* emits `finished`.  `finished` is a queued signal: find_duplicates runs  *)
(* later, on the GUI thread.  An exception that leaves a slot ends the     *)
(* program (PyQt6 aborts on an unhandled exception in a slot).             *)
(***************************************************************************)
EXTENDS Integers, Sequences, FiniteSets, TLC

\* ------------------------------------------------------------------ bounds
MaxFiles == 3      \* image names that may exist in a directory
MaxScans == 2      \* workers created in one run of the program
MaxEnv   == 1      \* changes made to the file system from outside the program

\* ------------------------------------------------------------- file system
\* A path is the sequence of its components; "" is the empty sequence.
NoPath == <<>>
Root   == <<"pics">>
Sub    == <<"pics", "dup">>
Dirs   == {Root, Sub}

NameList   == <<"a.png", "b.png", "c.png", "d.png">>
ImageNames == {NameList[i] : i \in 1..MaxFiles}
AllFiles   == {d \o <<n>> : d \in Dirs, n \in ImageNames}

\* Names used to study the enumeration: other extensions, upper case, an image
\* extension that is not at the end, and no extension at all.
OddNameList == <<"B.PNG", "c.JpEg", "d.jpg", "e.bmp", "f.GIF", "g.tiff",
                 "h.tif", "i.txt", "j.png.bak", "png", ".png">>
OddNames    == {OddNameList[i] : i \in 1..Len(OddNameList)}
SubDirName  == "sub.png"

\* the order in which os.listdir returns the names of the model
ListingOrder == NameList \o OddNameList \o <<"dup", SubDirName>>

\* a name as the string of its characters
Chars ==
    "a.png" :> <<"a", ".", "p", "n", "g">> @@
    "b.png" :> <<"b", ".", "p", "n", "g">> @@
    "c.png" :> <<"c", ".", "p", "n", "g">> @@
    "d.png" :> <<"d", ".", "p", "n", "g">> @@
    "B.PNG" :> <<"B", ".", "P", "N", "G">> @@
    "c.JpEg" :> <<"c", ".", "J", "p", "E", "g">> @@
    "d.jpg" :> <<"d", ".", "j", "p", "g">> @@
    "e.bmp" :> <<"e", ".", "b", "m", "p">> @@
    "f.GIF" :> <<"f", ".", "G", "I", "F">> @@
    "g.tiff" :> <<"g", ".", "t", "i", "f", "f">> @@
    "h.tif" :> <<"h", ".", "t", "i", "f">> @@
    "i.txt" :> <<"i", ".", "t", "x", "t">> @@
    "j.png.bak" :> <<"j", ".", "p", "n", "g", ".", "b", "a", "k">> @@
    "png" :> <<"p", "n", "g">> @@
    ".png" :> <<".", "p", "n", "g">> @@
    "dup" :> <<"d", "u", "p">> @@
    "sub.png" :> <<"s", "u", "b", ".", "p", "n", "g">>

\* File contents: two decodable pictures and one file that is no image.
Absent   == "absent"
Corrupt  == "x"
Contents == {"p", "q", Corrupt}

VARIABLES
    source_folder,     \* self.source_folder
    dest_folder,       \* self.dest_folder
    selected_method,   \* self.selected_method
    method_group,      \* self.method_group.isEnabled(); the Execute button is inside it
    source_files,      \* self.source_files, one list object shared with the workers
    img_hashes_dict,   \* self.img_hashes_dict, in insertion order
    duplicates_found,  \* self.duplicates_found
    start_time,        \* self.start_time: 0 is None, n the time of the n-th started scan
    feedback,          \* self.feedback_info_label
    search_result,     \* self.search_result_info_label: -1 cleared, n "for n files"
    workers,           \* the Worker runnables given to the thread pool
    finished_sig,      \* `finished` signals queued for the GUI thread
    slot_exc,          \* the exception that left a slot, "none" while the program lives
    fs,                \* content of every file path, Absent when there is no such file
    dirs,              \* the directories that exist
    env_left,          \* outside changes still allowed
    user,              \* who drives the GUI in this run, see UserMayExecute
    gui_pc,            \* where the GUI thread is: "idle" between slots, else inside one
    cancel_requested,  \* history: the user has asked for the running scan to stop
    last_reloc         \* history: the latest call of find_duplicates of the scans in flight

vars == <<source_folder, dest_folder, selected_method, method_group, source_files,
          img_hashes_dict, duplicates_found, start_time, feedback, search_result,
          workers, finished_sig, slot_exc, fs, dirs, env_left, user, gui_pc,
          cancel_requested, last_reloc>>

Methods == {"Exact Match", "Perceptual Hashing", "Mean Color"}

\* ----------------------------------------------------------------- os.path
IsDir(p) == p \in dirs

Basename(f) == f[Len(f)]

RECURSIVE CommonLen(_, _, _)
CommonLen(p, q, i) ==
    IF i < Len(p) /\ i < Len(q) /\ p[i + 1] = q[i + 1]
    THEN CommonLen(p, q, i + 1)
    ELSE i

\* os.path.commonpath([p, q]): the longest common sequence of components
CommonPath(p, q) == SubSeq(p, 1, CommonLen(p, q, 0))

\* os.path.isfile(p)
IsFile(p) == p \in DOMAIN fs /\ fs[p] # Absent

\* os.listdir(d): the files and the directories directly inside d
ListDir(d) ==
    LET F[i \in 0..Len(ListingOrder)] ==
            IF i = 0 THEN <<>>
            ELSE IF IsFile(d \o <<ListingOrder[i]>>) \/ IsDir(d \o <<ListingOrder[i]>>)
                 THEN Append(F[i - 1], ListingOrder[i])
                 ELSE F[i - 1]
    IN  F[Len(ListingOrder)]

\* [f for f in os.listdir(d) if os.path.isfile(os.path.join(d, f))]
ListFiles(d) == SelectSeq(ListDir(d), LAMBDA n : IsFile(d \o <<n>>))

\* str.lower() on the letters of the model's names
UpperCase == <<"A", "B", "C", "D", "E", "F", "G", "H", "I", "J", "K", "L", "M",
               "N", "O", "P", "Q", "R", "S", "T", "U", "V", "W", "X", "Y", "Z">>
LowerCase == <<"a", "b", "c", "d", "e", "f", "g", "h", "i", "j", "k", "l", "m",
               "n", "o", "p", "q", "r", "s", "t", "u", "v", "w", "x", "y", "z">>

LowerChar(c) ==
    IF \E i \in 1..Len(UpperCase) : UpperCase[i] = c
    THEN LowerCase[CHOOSE i \in 1..Len(UpperCase) : UpperCase[i] = c]
    ELSE c

Lower(str) == [i \in 1..Len(str) |-> LowerChar(str[i])]

\* str.endswith(suffix)
EndsWith(str, suffix) ==
    /\ Len(str) >= Len(suffix)
    /\ SubSeq(str, Len(str) - Len(suffix) + 1, Len(str)) = suffix

\* (".png", ".jpg", ".jpeg", ".bmp", ".gif", ".tiff")
Extensions ==
    {<<".", "p", "n", "g">>, <<".", "j", "p", "g">>, <<".", "j", "p", "e", "g">>,
     <<".", "b", "m", "p">>, <<".", "g", "i", "f">>, <<".", "t", "i", "f", "f">>}

\* a variant of the filter that compares the name as it is written
HasImageExtension_CaseSensitive(n) == \E e \in Extensions : EndsWith(Chars[n], e)

\* file.lower().endswith((".png", ".jpg", ".jpeg", ".bmp", ".gif", ".tiff"))
HasImageExtension(n) == \E e \in Extensions : EndsWith(Lower(Chars[n]), e)

\* load_file_paths: the new content of self.source_files
LoadFilePaths ==
    LET names == ListFiles(source_folder)
        F[i \in 0..Len(names)] ==
            IF i = 0 THEN <<>>
            ELSE IF HasImageExtension(names[i])
                 THEN Append(F[i - 1], source_folder \o <<names[i]>>)
                 ELSE F[i - 1]
    IN  F[Len(names)]

\* ------------------------------------------------------------ fingerprints
\* A fingerprint is "" when the strategy raises.
Raised == ""

\* compute_file_hash: SHA-256 of the bytes; raises only if the file cannot be opened
compute_file_hash(f) ==
    IF fs[f] = Absent THEN Raised
    ELSE IF fs[f] = "p" THEN "sha_p" ELSE IF fs[f] = "q" THEN "sha_q" ELSE "sha_x"

\* Image.open + imagehash.average_hash: raises if missing or undecodable
average_hash(f) ==
    IF fs[f] \in {Absent, Corrupt} THEN Raised
    ELSE IF fs[f] = "p" THEN "ah_p" ELSE "ah_q"

\* calculate_mean_color_hash: raises if missing or undecodable
calculate_mean_color_hash(f) ==
    IF fs[f] \in {Absent, Corrupt} THEN Raised
    ELSE IF fs[f] = "p" THEN "7BC896" ELSE "102030"

Fingerprint(m, f) ==
    IF m = "Exact Match" THEN compute_file_hash(f)
    ELSE IF m = "Perceptual Hashing" THEN average_hash(f)
    ELSE calculate_mean_color_hash(f)

\* self.img_hashes_dict.setdefault(h, []).append(f)
HasKey(d, h) == \E i \in 1..Len(d) : d[i].key = h

SetDefaultAppend(d, h, f) ==
    IF HasKey(d, h)
    THEN [i \in 1..Len(d) |->
            IF d[i].key = h THEN [d[i] EXCEPT !.files = Append(@, f)] ELSE d[i]]
    ELSE Append(d, [key |-> h, files |-> <<f>>])

\* round((idx + 1) / total_files * 100, 2), in hundredths of a percent
Progress(k, total) ==
    LET num == k * 10000
        q   == num \div total
        r   == num % total
    IN  IF 2 * r < total THEN q
        ELSE IF 2 * r > total THEN q + 1
        ELSE IF q % 2 = 0 THEN q ELSE q + 1

\* ------------------------------------------------------------------- state
Cleared == [kind |-> "", n |-> 0]

Label(k) == [kind |-> k, n |-> 0]

\* Worker(fn): a runnable that has not run yet
NewWorker(m, overlapped) ==
    [fn       |-> m,          \* the hashing function chosen by set_search_method
     pc       |-> "queued",   \* queued, loop, finished (signal emitted), joined (slot ran)
     it       |-> 0,          \* entries the loop's list iterator has consumed
     total    |-> 0,          \* total_files
     progress |-> <<>>,       \* values emitted on signals.progress
     aborted  |-> FALSE,      \* the loop was left through the except clause around it
     skipped  |-> 0,          \* files whose exception was caught inside the loop
     inserted |-> {},         \* history: the files this worker put into the index
     shared   |-> overlapped] \* history: Execute ran while another scan was in flight

\* a runnable whose `finished` slot has run: nothing reads it again
JoinedWorker == [NewWorker("Exact Match", FALSE) EXCEPT !.pc = "joined"]

\* no call of find_duplicates yet
NoReloc ==
    [by |-> 0, ran |-> FALSE, partial |-> FALSE, shared |-> FALSE, repeat |-> FALSE,
     index |-> <<>>, dest |-> NoPath, before |-> <<>>, after |-> <<>>,
     exc |-> "none", report |-> Cleared, files |-> -1]

Active(w) == w.pc \in {"queued", "loop"}

ActiveWorkers == {i \in 1..Len(workers) : Active(workers[i])}

\* -------------------------------------------------------------------- user
(***************************************************************************)
(* Two users bound what is explored.  The patient user clicks Execute only *)
(* when no scan is in flight and may change the method; the file system    *)
(* may change under them.  The impatient user clicks Execute whenever the  *)
(* button is enabled, also during a scan, may cancel a folder dialog,      *)
(* keeps the default method, and nothing changes the file system from      *)
(* outside.                                                                *)
(***************************************************************************)
Users == {"patient", "impatient"}

ScanInFlight == ActiveWorkers # {} \/ finished_sig # <<>>

UserMayExecute == user = "impatient" \/ ~ScanInFlight

UserMayChangeMethod == user = "patient"

\* what QFileDialog.getExistingDirectory returns: a directory, or "" on cancel
DialogResults == IF user = "impatient" THEN Dirs \cup {NoPath} ELSE Dirs

\* The directories start with Root holding the first k names and Sub holding at
\* most a file of the first name.  Names and decodable contents are
\* interchangeable, so the first decodable file of Root is "p".
InitFs ==
    {f \in [AllFiles -> Contents \cup {Absent}] :
        /\ \A n \in ImageNames :
              f[Sub \o <<n>>] \in (IF n = NameList[1] THEN {Absent, "q"} ELSE {Absent})
        /\ \A i \in 2..MaxFiles :
              f[Root \o <<NameList[i - 1]>>] = Absent => f[Root \o <<NameList[i]>>] = Absent
        /\ \A i \in 1..MaxFiles :
              f[Root \o <<NameList[i]>>] = "q"
                 => \E j \in 1..(i - 1) : f[Root \o <<NameList[j]>>] = "p"}

\* the widget after __init__ and init_ui, before any event
InitProgram ==
    /\ source_folder = NoPath
    /\ dest_folder = NoPath
    /\ selected_method = "Exact Match"
    /\ method_group = FALSE
    /\ source_files = <<>>
    /\ img_hashes_dict = <<>>
    /\ duplicates_found = FALSE
    /\ start_time = 0
    /\ feedback = Cleared
    /\ search_result = -1
    /\ workers = <<>>
    /\ finished_sig = <<>>
    /\ slot_exc = "none"
    /\ gui_pc = "idle"
    /\ cancel_requested = FALSE
    /\ last_reloc = NoReloc

Init ==
    /\ InitProgram
    /\ fs \in InitFs
    /\ dirs = Dirs
    /\ user \in Users
    /\ env_left = IF user = "patient" THEN MaxEnv ELSE 0

\* ------------------------------------------------------------ GUI handlers
\* set_method_group_status: the new enabled state of the method group
MethodGroupStatus(src, dst) ==
    IF src # NoPath /\ dst # NoPath
    THEN IF IsDir(src) /\ IsDir(dst) THEN TRUE ELSE method_group
    ELSE FALSE

open_source_dir(path) ==
    /\ slot_exc = "none"
    /\ gui_pc = "idle"
    /\ IF ~(path # NoPath /\ IsDir(path))
       THEN /\ method_group' = FALSE
            /\ UNCHANGED <<source_folder, feedback>>
       ELSE /\ source_folder' = path
            /\ feedback' = Cleared
            /\ method_group' = MethodGroupStatus(path, dest_folder)
    /\ UNCHANGED <<dest_folder, selected_method, source_files, img_hashes_dict,
                   duplicates_found, start_time, search_result, workers,
                   finished_sig, slot_exc, fs, dirs, env_left, last_reloc, user, gui_pc,
                   cancel_requested>>

open_dest_dir(path) ==
    /\ slot_exc = "none"
    /\ gui_pc = "idle"
    /\ IF ~(path # NoPath /\ IsDir(path))
       THEN /\ method_group' = FALSE
            /\ UNCHANGED <<dest_folder, feedback>>
       ELSE /\ dest_folder' = path
            /\ feedback' = Cleared
            /\ method_group' = MethodGroupStatus(source_folder, path)
    /\ UNCHANGED <<source_folder, selected_method, source_files, img_hashes_dict,
                   duplicates_found, start_time, search_result, workers,
                   finished_sig, slot_exc, fs, dirs, env_left, last_reloc, user, gui_pc,
                   cancel_requested>>

\* the radio buttons are children of the method group
update_method(m) ==
    /\ slot_exc = "none"
    /\ gui_pc = "idle"
    /\ method_group
    /\ selected_method' = m
    /\ UNCHANGED <<source_folder, dest_folder, method_group, source_files,
                   img_hashes_dict, duplicates_found, start_time, feedback,
                   search_result, workers, finished_sig, slot_exc, fs, dirs,
                   env_left, last_reloc, user, gui_pc,
                   cancel_requested>>

\* a variant of the condition without the comparison of the two folders
ConfigValid_NoDifferenceTest == IsDir(source_folder) /\ IsDir(dest_folder)

\* the condition of execute_search
ConfigValid ==
    /\ IsDir(source_folder) /\ IsDir(dest_folder)
    /\ dest_folder # source_folder

\* load_file_paths clears and refills the list the running workers iterate
MarkShared(ws) == [i \in 1..Len(ws) |->
                     IF ws[i].pc # "joined" THEN [ws[i] EXCEPT !.shared = TRUE] ELSE ws[i]]

\* a variant of the test that never takes the early return
NoImages_Ignored(files) == FALSE

\* `if not self.source_files` in execute_search
NoImages(files) == files = <<>>

\* execute_search, with load_file_paths, set_worker_thread and set_search_method
execute_search ==
    /\ slot_exc = "none"
    /\ gui_pc = "idle"
    /\ method_group
    /\ IF ConfigValid
       THEN LET files == LoadFilePaths IN
            /\ source_files' = files
            /\ IF NoImages(files)
               THEN /\ feedback' = Label("no_images")
                    /\ workers' = MarkShared(workers)
                    /\ UNCHANGED <<method_group, search_result, start_time, last_reloc,
                                   cancel_requested>>
               ELSE /\ Len(workers) < MaxScans
                    /\ feedback' = Cleared
                    /\ workers' = Append(MarkShared(workers),
                                         NewWorker(selected_method, ScanInFlight))
                    /\ method_group' = FALSE
                    /\ search_result' = -1
                    /\ start_time' = Len(workers) + 1
                    /\ last_reloc' = NoReloc
                    /\ cancel_requested' = FALSE
       ELSE /\ feedback' = Label("must_differ")
            /\ UNCHANGED <<source_files, workers, method_group, search_result,
                           start_time, last_reloc, cancel_requested>>
    /\ UNCHANGED <<source_folder, dest_folder, selected_method, img_hashes_dict,
                   duplicates_found, finished_sig, slot_exc, fs, dirs, env_left, user,
                   gui_pc>>

\* execute_search in two steps of the GUI thread, for the workers that run
\* between them: lines 303-318, up to the return of set_worker_thread and the
\* clearing of the result label
execute_search_started ==
    /\ slot_exc = "none"
    /\ gui_pc = "idle"
    /\ method_group
    /\ IF ConfigValid
       THEN LET files == LoadFilePaths IN
            /\ source_files' = files
            /\ IF NoImages(files)
               THEN /\ feedback' = Label("no_images")
                    /\ workers' = MarkShared(workers)
                    /\ UNCHANGED <<method_group, search_result, last_reloc,
                                   cancel_requested, gui_pc>>
               ELSE /\ Len(workers) < MaxScans
                    /\ feedback' = Cleared
                    /\ workers' = Append(MarkShared(workers),
                                         NewWorker(selected_method, ScanInFlight))
                    /\ method_group' = FALSE
                    /\ search_result' = -1
                    /\ gui_pc' = "stamping"
                    /\ last_reloc' = NoReloc
                    /\ cancel_requested' = FALSE
       ELSE /\ feedback' = Label("must_differ")
            /\ UNCHANGED <<source_files, workers, method_group, search_result,
                           last_reloc, cancel_requested, gui_pc>>
    /\ UNCHANGED <<source_folder, dest_folder, selected_method, img_hashes_dict,
                   duplicates_found, finished_sig, slot_exc, fs, dirs, env_left, user,
                   start_time>>

\* line 320 of execute_search: self.start_time = datetime.datetime.now()
execute_search_stamp ==
    /\ slot_exc = "none"
    /\ gui_pc = "stamping"
    /\ start_time' = Len(workers)
    /\ gui_pc' = "idle"
    /\ UNCHANGED <<source_folder, dest_folder, selected_method, method_group,
                   source_files, img_hashes_dict, duplicates_found, feedback,
                   search_result, workers, finished_sig, slot_exc, fs, dirs, env_left,
                   user, cancel_requested, last_reloc>>

\* ----------------------------------------------------------------- workers
\* Worker.run enters the hashing function: clear, reset, the empty-list return
WorkerRun(w) ==
    /\ slot_exc = "none"
    /\ w \in 1..Len(workers)
    /\ workers[w].pc = "queued"
    /\ img_hashes_dict' = <<>>
    /\ duplicates_found' = FALSE
    /\ IF source_files = <<>>
       THEN /\ workers' = [workers EXCEPT ![w].pc = "finished"]
            /\ finished_sig' = Append(finished_sig, w)
       ELSE /\ workers' = [workers EXCEPT ![w].pc = "loop",
                                          ![w].total = Len(source_files)]
            /\ UNCHANGED finished_sig
    /\ UNCHANGED <<source_folder, dest_folder, selected_method, method_group,
                   source_files, start_time, feedback, search_result, slot_exc,
                   fs, dirs, env_left, last_reloc, user, gui_pc,
                   cancel_requested>>

\* the except clause is around the loop in exact_match_hashing and
\* perceptual_hashing, inside it in mean_color_hash
ExceptInsideLoop(m) == m = "Mean Color"

\* one iteration of `for idx, file in enumerate(self.source_files)`
WorkerStep(w) ==
    /\ slot_exc = "none"
    /\ w \in 1..Len(workers)
    /\ workers[w].pc = "loop"
    /\ workers[w].it < Len(source_files)
    /\ LET me == workers[w]
           file == source_files[me.it + 1]
           h == Fingerprint(me.fn, file)
       IN  IF h = Raised
           THEN IF ExceptInsideLoop(me.fn)
                THEN /\ workers' = [workers EXCEPT ![w].it = @ + 1,
                                                   ![w].skipped = @ + 1]
                     /\ feedback' = Label("error")
                     /\ UNCHANGED <<img_hashes_dict, finished_sig>>
                ELSE /\ workers' = [workers EXCEPT ![w].pc = "finished",
                                                   ![w].aborted = TRUE]
                     /\ finished_sig' = Append(finished_sig, w)
                     /\ feedback' = IF me.fn = "Perceptual Hashing"
                                    THEN Label("error") ELSE feedback
                     /\ UNCHANGED img_hashes_dict
           ELSE /\ img_hashes_dict' = SetDefaultAppend(img_hashes_dict, h, file)
                /\ feedback' = Label("checking")
                /\ workers' = [workers EXCEPT
                                 ![w].it = @ + 1,
                                 ![w].inserted = @ \cup {file},
                                 ![w].progress = Append(@, Progress(me.it + 1, me.total))]
                /\ UNCHANGED finished_sig
    /\ UNCHANGED <<source_folder, dest_folder, selected_method, method_group,
                   source_files, duplicates_found, start_time, search_result,
                   slot_exc, fs, dirs, env_left, last_reloc, user, gui_pc,
                   cancel_requested>>

\* the list iterator is exhausted: the function returns, run emits `finished`
WorkerFinish(w) ==
    /\ slot_exc = "none"
    /\ w \in 1..Len(workers)
    /\ workers[w].pc = "loop"
    /\ workers[w].it >= Len(source_files)
    /\ workers' = [workers EXCEPT ![w].pc = "finished"]
    /\ finished_sig' = Append(finished_sig, w)
    /\ UNCHANGED <<source_folder, dest_folder, selected_method, method_group,
                   source_files, img_hashes_dict, duplicates_found, start_time,
                   feedback, search_result, slot_exc, fs, dirs, env_left, last_reloc,
                   user, gui_pc,
                   cancel_requested>>

\* -------------------------------------------------------------- relocation
\* a variant of the move that replaces a file of the same name in dst
shutil_move_Overwrites(src, dst, f_s) ==
    LET real_dst == dst \o <<Basename(src)>>
    IN  IF f_s[src] = Absent
        THEN [exc |-> "FileNotFoundError", fs |-> f_s]
        ELSE [exc |-> "none",
              fs  |-> [f_s EXCEPT ![real_dst] = f_s[src], ![src] = Absent]]

\* shutil.move(src, dst) with dst a directory: the file system after the move, or
\* the exception raised
shutil_move(src, dst, f_s) ==
    LET real_dst == dst \o <<Basename(src)>>
    IN  IF f_s[real_dst] # Absent
        THEN [exc |-> "Error", fs |-> f_s]               \* destination path already exists
        ELSE IF f_s[src] = Absent
        THEN [exc |-> "FileNotFoundError", fs |-> f_s]   \* os.rename and the copy both fail
        ELSE [exc |-> "none",
              fs  |-> [f_s EXCEPT ![real_dst] = f_s[src], ![src] = Absent]]

\* the guard of move_duplicates: the file is already under the destination
UnderDest(f, dst) == CommonPath(f, dst) = dst

\* the files the two nested loops of move_duplicates visit, in order
RECURSIVE MoveOrder(_)
MoveOrder(d) ==
    IF d = <<>> THEN <<>>
    ELSE (IF Len(Head(d).files) > 1 THEN Head(d).files ELSE <<>>) \o MoveOrder(Tail(d))

\* the index without the path f
WithoutFile(d, f) ==
    [i \in 1..Len(d) |-> [d[i] EXCEPT !.files = SelectSeq(@, LAMBDA g : g # f)]]

\* a variant of the loops that takes every moved path out of its group
RECURSIVE MoveLoop_DropsMoved(_, _, _)
MoveLoop_DropsMoved(todo, dst, st) ==
    IF todo = <<>> THEN st
    ELSE IF UnderDest(Head(todo), dst) THEN MoveLoop_DropsMoved(Tail(todo), dst, st)
    ELSE LET r == shutil_move(Head(todo), dst, st.fs)
         IN  IF r.exc # "none"
             THEN [st EXCEPT !.exc = r.exc]
             ELSE MoveLoop_DropsMoved(Tail(todo), dst,
                           [st EXCEPT !.fs = r.fs,
                                      !.index = WithoutFile(@, Head(todo)),
                                      !.moved_number = @ + 1,
                                      !.moved_files = Append(@, Head(todo))])

\* the loops of move_duplicates from the state st on: they stop at the first exception
RECURSIVE MoveLoop(_, _, _)
MoveLoop(todo, dst, st) ==
    IF todo = <<>> THEN st
    ELSE IF UnderDest(Head(todo), dst) THEN MoveLoop(Tail(todo), dst, st)
    ELSE LET r == shutil_move(Head(todo), dst, st.fs)
         IN  IF r.exc # "none"
             THEN [st EXCEPT !.exc = r.exc]
             ELSE MoveLoop(Tail(todo), dst,
                           [st EXCEPT !.fs = r.fs,
                                      !.moved_number = @ + 1,
                                      !.moved_files = Append(@, Head(todo))])

MoveDuplicates ==
    MoveLoop(MoveOrder(img_hashes_dict), dest_folder,
             [fs |-> fs, index |-> img_hashes_dict, moved_number |-> 0,
              moved_files |-> <<>>, exc |-> "none"])

HasDuplicateGroup(d) == \E i \in 1..Len(d) : Len(d[i].files) > 1

\* a variant of the label that counts the groups of 2 or more, not the moves
ReportLabel_GroupCount(found, moved_number) ==
    IF ~found THEN Label("none_found")
    ELSE [kind |-> "found",
          n |-> Cardinality({i \in 1..Len(img_hashes_dict) :
                                Len(img_hashes_dict[i].files) > 1})]

\* the label move_duplicates writes at its end
ReportLabel(found, moved_number) ==
    IF ~found THEN Label("none_found") ELSE [kind |-> "found", n |-> moved_number]

\* find_duplicates with move_duplicates and estimate_search_time: the slot of the
\* `finished` signal at the head of the GUI thread's queue
find_duplicates ==
    /\ slot_exc = "none"
    /\ gui_pc = "idle"
    /\ finished_sig # <<>>
    /\ LET w == Head(finished_sig)
           r == MoveDuplicates
           found == duplicates_found \/ HasDuplicateGroup(img_hashes_dict)
           entry == [NoReloc EXCEPT
                       !.by      = w,
                       !.partial = workers[w].aborted,
                       !.shared  = workers[w].shared,
                       !.repeat  = /\ last_reloc.ran /\ last_reloc.exc = "none"
                                   /\ last_reloc.index = img_hashes_dict
                                   /\ last_reloc.dest = dest_folder,
                       !.index   = img_hashes_dict,
                       !.dest    = dest_folder,
                       !.before  = fs,
                       !.after   = fs]
       IN  /\ finished_sig' = Tail(finished_sig)
           /\ workers' = [workers EXCEPT ![w] = JoinedWorker]
           /\ IF ~IsDir(dest_folder)
              THEN /\ last_reloc' = [entry EXCEPT !.report = feedback,
                                                  !.files = search_result]
                   /\ UNCHANGED <<fs, img_hashes_dict, duplicates_found, method_group,
                                  search_result, feedback, slot_exc>>
              ELSE /\ fs' = r.fs
                   /\ img_hashes_dict' = r.index
                   /\ duplicates_found' = found
                   /\ slot_exc' = r.exc
                   /\ IF r.exc # "none"
                      THEN UNCHANGED <<method_group, search_result, feedback>>
                      ELSE /\ method_group' = TRUE
                           /\ search_result' = Len(source_files)
                           /\ feedback' = ReportLabel(found, r.moved_number)
                   /\ last_reloc' = [entry EXCEPT !.ran = TRUE,
                                                  !.after = r.fs,
                                                  !.exc = r.exc,
                                                  !.report = feedback',
                                                  !.files = search_result']
    /\ UNCHANGED <<source_folder, dest_folder, selected_method, source_files,
                   start_time, dirs, env_left, user, gui_pc, cancel_requested>>

\* ------------------------------------------------------------- environment
\* an enumerated file is deleted from outside the program while a scan is in
\* flight (a file deleted before it is enumerated is a different initial file system)
EnvRemoveFile(f) ==
    /\ slot_exc = "none"
    /\ env_left > 0
    /\ fs[f] # Absent
    /\ ScanInFlight
    /\ \E i \in 1..Len(source_files) : source_files[i] = f
    /\ fs' = [fs EXCEPT ![f] = Absent]
    /\ env_left' = env_left - 1
    /\ UNCHANGED <<source_folder, dest_folder, selected_method, method_group,
                   source_files, img_hashes_dict, duplicates_found, start_time,
                   feedback, search_result, workers, finished_sig, slot_exc, dirs,
                   last_reloc, user, gui_pc,
                   cancel_requested>>

\* a selected directory that holds no directory is deleted from outside the
\* program, with the files in it
EnvRemoveDir(d) ==
    /\ slot_exc = "none"
    /\ env_left > 0
    /\ d \in dirs
    /\ d \in {source_folder, dest_folder}
    /\ \A e \in dirs : CommonPath(e, d) = d => e = d
    /\ dirs' = {e \in dirs : CommonPath(e, d) # d}
    /\ fs' = [f \in DOMAIN fs |-> IF CommonPath(f, d) = d THEN Absent ELSE fs[f]]
    /\ env_left' = env_left - 1
    /\ UNCHANGED <<source_folder, dest_folder, selected_method, method_group,
                   source_files, img_hashes_dict, duplicates_found, start_time,
                   feedback, search_result, workers, finished_sig, slot_exc,
                   last_reloc, user, gui_pc,
                   cancel_requested>>

\* ----------------------------------------------------------- specification
Next ==
    \/ \E path \in DialogResults : open_source_dir(path)
    \/ \E path \in DialogResults : open_dest_dir(path)
    \/ \E m \in Methods : UserMayChangeMethod /\ update_method(m)
    \/ UserMayExecute /\ execute_search
    \/ \E w \in 1..MaxScans : WorkerRun(w)
    \/ \E w \in 1..MaxScans : WorkerStep(w)
    \/ \E w \in 1..MaxScans : WorkerFinish(w)
    \/ find_duplicates
    \/ \E f \in AllFiles : EnvRemoveFile(f)
    \/ \E d \in Dirs : EnvRemoveDir(d)

Spec == Init /\ [][Next]_vars

\* ------------------------------------------------- a user who wants to stop
\* The user asks for the running scan to stop.  event_handler connects no slot to
\* such a request and no loop reads a flag, so no state of the program changes.
RequestCancel ==
    /\ slot_exc = "none"
    /\ gui_pc = "idle"
    /\ ActiveWorkers # {}
    /\ ~cancel_requested
    /\ cancel_requested' = TRUE
    /\ UNCHANGED <<source_folder, dest_folder, selected_method, method_group,
                   source_files, img_hashes_dict, duplicates_found, start_time,
                   feedback, search_result, workers, finished_sig, slot_exc, fs, dirs,
                   env_left, user, gui_pc, last_reloc>>

\* the patient user with the default method, no change from outside
InitCancel == Init /\ user = "patient"

NextCancel ==
    \/ \E path \in Dirs : open_source_dir(path)
    \/ \E path \in Dirs : open_dest_dir(path)
    \/ UserMayExecute /\ execute_search
    \/ \E w \in 1..MaxScans : WorkerRun(w)
    \/ \E w \in 1..MaxScans : WorkerStep(w)
    \/ \E w \in 1..MaxScans : WorkerFinish(w)
    \/ find_duplicates
    \/ RequestCancel

SpecCancel == InitCancel /\ [][NextCancel]_vars

\* --------------------------------------------- Execute in two steps
\* the patient user with the default method, no change from outside; the worker
\* may run as soon as threadpool.start has been called
InitTiming == Init /\ user = "patient"

NextTiming ==
    \/ \E path \in Dirs : open_source_dir(path)
    \/ \E path \in Dirs : open_dest_dir(path)
    \/ UserMayExecute /\ execute_search_started
    \/ execute_search_stamp
    \/ \E w \in 1..MaxScans : WorkerRun(w)
    \/ \E w \in 1..MaxScans : WorkerStep(w)
    \/ \E w \in 1..MaxScans : WorkerFinish(w)
    \/ find_duplicates

SpecTiming == InitTiming /\ [][NextTiming]_vars

\* ------------------------------------------------- folders with other names
\* The source folder holds at most MaxOdd files with names of OddNames beside
\* a.png, all with the same bytes, and a directory named like an image.
MaxOdd == 2

EnumFiles == {d \o <<n>> : d \in Dirs, n \in OddNames \cup {NameList[1]}}

OddSets ==
    {T \in SUBSET {Root \o <<n>> : n \in OddNames} : Cardinality(T) <= MaxOdd}

EnumFs ==
    {[p \in EnumFiles |-> IF p \in T \cup A THEN "p" ELSE Absent] :
        T \in OddSets, A \in {{}, {Root \o <<NameList[1]>>}}}

InitEnum ==
    /\ InitProgram
    /\ fs \in EnumFs
    /\ dirs = Dirs \cup {Root \o <<SubDirName>>}
    /\ user = "patient"
    /\ env_left = 0

NextEnum ==
    \/ \E path \in Dirs : open_source_dir(path)
    \/ \E path \in Dirs : open_dest_dir(path)
    \/ UserMayExecute /\ execute_search
    \/ \E w \in 1..MaxScans : WorkerRun(w)
    \/ \E w \in 1..MaxScans : WorkerStep(w)
    \/ \E w \in 1..MaxScans : WorkerFinish(w)
    \/ find_duplicates

SpecEnum == InitEnum /\ [][NextEnum]_vars

\* ------------------------------------------------------ claims: vocabulary
GroupMembers(g) == {g.files[j] : j \in 1..Len(g.files)}

ListedFiles == {source_files[i] : i \in 1..Len(source_files)}

\* the latest relocation: the files that left their place, and where a file lands
RelocMoved ==
    {f \in AllFiles : last_reloc.before[f] # Absent /\ last_reloc.after[f] = Absent}

Landing(f) == last_reloc.dest \o <<Basename(f)>>

\* before the latest relocation, shutil.move of f alone would have succeeded
Movable(f) ==
    /\ last_reloc.before[f] # Absent
    /\ last_reloc.before[Landing(f)] = Absent

\* the members the latest relocation had to move: in a group of 2 or more, not
\* under the destination
Qualifying ==
    {f \in AllFiles :
        /\ \E i \in 1..Len(last_reloc.index) :
              /\ Len(last_reloc.index[i].files) > 1
              /\ f \in GroupMembers(last_reloc.index[i])
        /\ ~UnderDest(f, last_reloc.dest)}

\* the files that are alone in their group of the latest relocation's index
Singles ==
    {f \in AllFiles :
        \E i \in 1..Len(last_reloc.index) : last_reloc.index[i].files = <<f>>}

\* a relocation that ran on a finished index: the index of a scan that no other
\* Execute touched
RanOnFinishedIndex == last_reloc.ran /\ ~last_reloc.shared

\* ---------------------------------------------------------------------- C1
\* C1: when relocation runs on a finished index, every member of a group of 2 or
\* more that is not under the destination, and that a move can take there, is in
\* the destination afterwards, and every file alone in its group stays where it was.
C1_AllMembersMoved ==
    RanOnFinishedIndex =>
        /\ \A f \in Qualifying :
              Movable(f) => /\ last_reloc.after[f] = Absent
                            /\ last_reloc.after[Landing(f)] = last_reloc.before[f]
        /\ \A f \in Singles : last_reloc.after[f] = last_reloc.before[f]

\* ---------------------------------------------------------------------- C2
\* C2: at most one scan is in flight: never two workers that are queued or
\* fingerprinting at the same time.
C2_OneScanInFlight == Cardinality(ActiveWorkers) <= 1

\* ---------------------------------------------------------------------- C3
\* a worker whose scan no other scan overlapped and that has left its loop
FinishedAlone(w) == workers[w].pc = "finished" /\ ~workers[w].shared

InIndex(f) ==
    \E i \in 1..Len(img_hashes_dict) : f \in GroupMembers(img_hashes_dict[i])

\* C3: a fingerprint failure is local: when the worker has finished, every file of
\* the enumerated list that its strategy can fingerprint is in the index, whatever
\* happened to the files before it.
C3_FailureIsLocal ==
    \A w \in 1..Len(workers) :
        FinishedAlone(w) =>
            \A f \in ListedFiles :
                Fingerprint(workers[w].fn, f) # Raised => InIndex(f)

\* ---------------------------------------------------------------------- C4
\* C4: a scan whose loop stopped before all files were processed moves no file:
\* relocation does not run on the partial index.
C4_NoRelocationAfterAbort ==
    last_reloc.partial => ~last_reloc.ran /\ RelocMoved = {}

\* ---------------------------------------------------------------------- C5
\* the configurations the program must reject, stated on the file system
C5_Invalid ==
    \/ source_folder = dest_folder
    \/ source_folder \notin dirs
    \/ dest_folder \notin dirs

\* C5: Execute on an invalid configuration only writes the warning label: the file
\* list is not enumerated, no worker is created or signalled, no file changes and
\* the controls stay as they were.
C5_InvalidConfigRejected ==
    [][(C5_Invalid /\ execute_search) =>
          /\ feedback' = Label("must_differ")
          /\ UNCHANGED <<source_folder, dest_folder, selected_method, method_group,
                         source_files, img_hashes_dict, duplicates_found, start_time,
                         search_result, workers, finished_sig, slot_exc, fs, dirs>>]_vars

\* Execute was clicked on an invalid configuration and nothing was started
C5_Witness ==
    /\ feedback = Label("must_differ")
    /\ C5_Invalid
    /\ source_folder = dest_folder
    /\ method_group
    /\ workers = <<>>

\* ---------------------------------------------------------------------- C6
\* C6: when a member of a qualifying group cannot be moved, relocation still
\* completes: the member stays where it is and every member that can be moved is
\* moved.
C6_BatchSurvivesFailedMove ==
    (RanOnFinishedIndex /\ \E f \in Qualifying : ~Movable(f)) =>
        /\ last_reloc.exc = "none"
        /\ \A f \in Qualifying :
              IF Movable(f) THEN last_reloc.after[f] = Absent
              ELSE last_reloc.after[f] = last_reloc.before[f]

\* ---------------------------------------------------------------------- C7
\* C7: a relocation that runs again on the index and destination of a completed
\* relocation raises nothing and moves nothing.
C7_SecondRunMovesNothing ==
    (last_reloc.ran /\ last_reloc.repeat) =>
        /\ last_reloc.exc = "none"
        /\ last_reloc.after = last_reloc.before

\* ---------------------------------------------------------------------- C8
NonDecreasing(s) == \A i \in 1..Len(s) : \A j \in i..Len(s) : s[i] <= s[j]

\* C8: a worker that has left its loop over a non-empty list has emitted a
\* non-decreasing sequence of progress values that ends with 100%.
C8_ProgressReachesFull ==
    \A w \in 1..Len(workers) :
        (FinishedAlone(w) /\ workers[w].total > 0) =>
            /\ NonDecreasing(workers[w].progress)
            /\ workers[w].progress # <<>>
            /\ workers[w].progress[Len(workers[w].progress)] = 10000

\* ---------------------------------------------------------------------- C9
\* worker w has left its loop and no file failed to fingerprint
AllFingerprinted(w) ==
    /\ workers[w].pc = "finished"
    /\ ~workers[w].aborted
    /\ workers[w].skipped = 0
    /\ \A f \in ListedFiles : fs[f] # Absent

\* the places of file f in the index
Places(f) ==
    {<<i, j>> \in (1..Len(img_hashes_dict)) \X (1..MaxFiles) :
        j <= Len(img_hashes_dict[i].files) /\ img_hashes_dict[i].files[j] = f}

ListPos(f) == CHOOSE k \in 1..Len(source_files) : source_files[k] = f

SharedFingerprints(m) ==
    {h \in {Fingerprint(m, f) : f \in ListedFiles} :
        Cardinality({f \in ListedFiles : Fingerprint(m, f) = h}) >= 2}

GroupingOf(m) ==
    /\ \A f \in ListedFiles : Cardinality(Places(f)) = 1
    /\ \A i \in 1..Len(img_hashes_dict) :
          /\ GroupMembers(img_hashes_dict[i]) \subseteq ListedFiles
          /\ \A f \in GroupMembers(img_hashes_dict[i]) :
                img_hashes_dict[i].key = Fingerprint(m, f)
          /\ \A k \in 1..Len(img_hashes_dict) :
                img_hashes_dict[k].key = img_hashes_dict[i].key => k = i
          /\ \A a \in 1..Len(img_hashes_dict[i].files) :
                \A b \in (a + 1)..Len(img_hashes_dict[i].files) :
                   ListPos(img_hashes_dict[i].files[a]) < ListPos(img_hashes_dict[i].files[b])
    /\ Cardinality({i \in 1..Len(img_hashes_dict) : Len(img_hashes_dict[i].files) > 1})
          = Cardinality(SharedFingerprints(m))

\* C9: after a scan in which every file was fingerprinted, every enumerated file is
\* in exactly one group, a group holds exactly the files of one fingerprint, in
\* enumeration order, and there are as many groups of 2 or more as fingerprints
\* shared by 2 or more files.
C9_GroupingCorrect ==
    \A w \in 1..Len(workers) : AllFingerprinted(w) => GroupingOf(workers[w].fn)

\* --------------------------------------------------------------------- C10
\* a relocation that ran to its end
Completed == last_reloc.ran /\ last_reloc.exc = "none"

DuplicateGroups ==
    {i \in 1..Len(last_reloc.index) : Len(last_reloc.index[i].files) > 1}

C11_CancelStopsScan ==
    [][cancel_requested =>
          /\ fs' = fs
          /\ img_hashes_dict' \in {img_hashes_dict, <<>>}]_vars

\* --------------------------------------------------------------------- C12
\* the workers inside their loop: each inserts into the index
Writers == {w \in 1..Len(workers) : workers[w].pc = "loop"}

\* C12: at most one worker is writing the index, and relocation reads the index
\* only when no worker is writing it.
C12_SingleWriter ==
    [][/\ Cardinality(Writers) <= 1
       /\ find_duplicates => Writers = {}]_vars

\* --------------------------------------------------------------------- C13
\* the configuration is valid and the source folder holds no image file
C13_EmptySource ==
    /\ source_folder \in dirs /\ dest_folder \in dirs
    /\ source_folder # dest_folder
    /\ \A n \in ImageNames : fs[source_folder \o <<n>>] = Absent

\* C13: Execute on a source folder without images starts no worker, queues no
\* relocation, moves no file and raises nothing; it writes "No images found" and
\* leaves the controls enabled.
C13_EmptySourceShortCircuit ==
    [][(C13_EmptySource /\ execute_search) =>
          /\ source_files' = <<>>
          /\ feedback' = Label("no_images")
          /\ Len(workers') = Len(workers)
          /\ \A i \in 1..Len(workers) : workers'[i].pc = workers[i].pc
          /\ UNCHANGED <<finished_sig, fs, slot_exc, method_group, img_hashes_dict,
                         duplicates_found, start_time, search_result>>]_vars

\* Execute was clicked on an empty source folder before any scan
C13_Witness ==
    /\ feedback = Label("no_images")
    /\ C13_EmptySource
    /\ workers = <<>>
    /\ method_group

\* --------------------------------------------------------------------- C14
\* the names of the model that end, in any case, with an allowed extension
C14_ImageNames ==
    {"a.png", "b.png", "c.png", "d.png", "B.PNG", "c.JpEg", "d.jpg", "e.bmp",
     "f.GIF", "g.tiff", ".png"}

\* the regular files directly inside the source folder that have such a name
C14_Expected ==
    {p \in DOMAIN fs :
        /\ Len(p) = Len(source_folder) + 1
        /\ SubSeq(p, 1, Len(source_folder)) = source_folder
        /\ p[Len(p)] \in C14_ImageNames
        /\ fs[p] # Absent}

\* C14: Execute on a valid configuration replaces the list by exactly the regular
\* files directly inside the source folder whose name ends, in any case, with
\* .png .jpg .jpeg .bmp .gif or .tiff, each once.
C14_EnumerationFilter ==
    [][(~C5_Invalid /\ execute_search) =>
          /\ {source_files'[i] : i \in 1..Len(source_files')} = C14_Expected
          /\ Len(source_files') = Cardinality(C14_Expected)]_vars

\* a list with an upper-case name, from a folder that also holds a file the
\* filter leaves out
C14_Witness ==
    /\ \E i \in 1..Len(source_files) : source_files[i] = Root \o <<"B.PNG">>
    /\ \E n \in OddNames \ C14_ImageNames : fs[Root \o <<n>>] # Absent

\* --------------------------------------------------------------------- C15
\* the files the step moves
MovedNow == {f \in DOMAIN fs : fs[f] # Absent /\ fs'[f] = Absent}

\* C15: the relocation of a scan moves only files that the scan's worker put into
\* the index, and it reports duplicates only when that index has a group of 2 or
\* more: groups and the flag of another scan cause no move and no report.
C15_FreshStatePerScan ==
    [][(finished_sig # <<>> /\ find_duplicates) =>
          /\ MovedNow \subseteq workers[Head(finished_sig)].inserted
          /\ (feedback'.kind = "found" /\ feedback' # feedback) =>
                \E i \in 1..Len(img_hashes_dict) :
                   /\ Len(img_hashes_dict[i].files) > 1
                   /\ GroupMembers(img_hashes_dict[i])
                         \subseteq workers[Head(finished_sig)].inserted]_vars

\* --------------------------------------------------------------------- C16
\* C16: relocation leaves the index as it found it: the same keys, the same
\* members in the same order, whether or not it moved files.
C16_IndexUnchanged ==
    [][(finished_sig # <<>> /\ find_duplicates) =>
          img_hashes_dict' = img_hashes_dict]_vars

\* the files in the groups of the index
IndexFiles ==
    UNION {GroupMembers(img_hashes_dict[i]) : i \in 1..Len(img_hashes_dict)}

\* files were moved and the index still holds the paths they had
C16_Witness ==
    /\ Completed
    /\ RelocMoved # {}
    /\ img_hashes_dict = last_reloc.index
    /\ RelocMoved \subseteq IndexFiles

\* --------------------------------------------------------------------- C17
\* C17: while a worker fingerprints, the start time is the one recorded for its
\* scan, and the relocation that follows a scan reads the start time of that scan.
C17_StartRecordedFirst ==
    [][/\ \A w \in Writers : start_time = w
       /\ (finished_sig # <<>> /\ find_duplicates) => start_time = Head(finished_sig)]_vars

\* --------------------------------------------------------------------- C18
\* C18: when the slot of the last queued `finished` signal has run and no worker
\* is left, the program is alive and the method group, with the Execute button,
\* is enabled again.
C18_ControlsReturn ==
    [][(finished_sig # <<>> /\ find_duplicates /\ ~ScanInFlight') =>
          /\ slot_exc' = "none"
          /\ method_group']_vars

\* --------------------------------------------------------------------- C19
PresentFiles(f_s) == {f \in DOMAIN f_s : f_s[f] # Absent}

\* C19: relocation conserves files: every file present before it is afterwards
\* either where it was, with its content, or in the destination folder under its
\* own name, where no file was before; no file appears or disappears.
C19_RelocationConserves ==
    [][(finished_sig # <<>> /\ find_duplicates) =>
          /\ \A f \in PresentFiles(fs) :
                \/ fs'[f] = fs[f]
                \/ /\ fs'[f] = Absent
                   /\ fs[dest_folder \o <<Basename(f)>>] = Absent
                   /\ fs'[dest_folder \o <<Basename(f)>>] = fs[f]
          /\ Cardinality(PresentFiles(fs')) = Cardinality(PresentFiles(fs))]_vars

\* a member's name was taken in the destination: the move raised and both files
\* are still where they were
C19_Witness ==
    /\ last_reloc.ran
    /\ last_reloc.exc = "Error"
    /\ \E f \in Qualifying :
          /\ last_reloc.before[Landing(f)] # Absent
          /\ last_reloc.after[Landing(f)] = last_reloc.before[Landing(f)]
          /\ last_reloc.after[f] = last_reloc.before[f]

====
